---- MODULE Spec2Model ----
(***************************************************************************)
(* A model of correct_exams.py: the exam correction agent that grades each *)
(* spreadsheet row with a remote completion endpoint and writes a report.  *)
(*                                                                         *)
(* Representation of text.                                                 *)
(*   - A spreadsheet answer box is a run-length encoded string: a sequence *)
(*     of runs [ch, n] (n >= 1 copies of the chunk ch), so that an answer  *)
(*     longer than the 500-character preview fits in a state.              *)
(*   - A model reply is a sequence of tokens: the fence marker, a language  *)
(*     tag, whitespace, prose, and the tokens of a JSON document.          *)
(*   - A Python value read from JSON is a tagged record [type, val].       *)
(***************************************************************************)
EXTENDS Integers, Sequences, FiniteSets, TLC

(***************************************************************************)
(* Bounds of the model                                                     *)
(***************************************************************************)
\* rows of the spreadsheet
MaxStudents == 2

(***************************************************************************)
(* CONFIGURATION (correct_exams.py lines 17-31)                            *)
(***************************************************************************)
SECTIONS_TO_GRADE == <<"WNL8", "WNL10">>

POINTS ==
    [s \in {"WNL8", "WNL10"} |->
        IF s = "WNL8"
        THEN [Q1 |-> [total |-> 3], Q2 |-> [total |-> 3]]
        ELSE [Q1 |-> [total |-> 3], Q2 |-> [total |-> 3]]]

\* the question texts, one chunk each
EXAM_QUESTIONS ==
    [s \in {"WNL8", "WNL10"} |->
        IF s = "WNL8"
        THEN [Q1 |-> "drawTriangle Function", Q2 |-> "commonElements Function"]
        ELSE [Q1 |-> "Count_digits Function", Q2 |-> "Score Dictionary"]]

\* the slice bound of the report's code fields
PREVIEW_LEN == 500

\* the literal of the error row's Max_Points
ERROR_ROW_MAX_POINTS == 6

(***************************************************************************)
(* Python strings as run-length encoded text                               *)
(***************************************************************************)
Run(c, k) == [ch |-> c, n |-> k]

RECURSIVE TextLen(_)
\* len(s)
TextLen(t) == IF t = <<>> THEN 0 ELSE Head(t).n + TextLen(Tail(t))

\* bool(s): a string is truthy when it is not empty
Truthy(t) == TextLen(t) > 0

RECURSIVE TakeText(_, _)
\* s[:k]
TakeText(t, k) ==
    IF t = <<>> \/ k <= 0 THEN <<>>
    ELSE IF Head(t).n <= k
         THEN <<Head(t)>> \o TakeText(Tail(t), k - Head(t).n)
         ELSE <<Run(Head(t).ch, k)>>

NO_ANSWER == <<Run("(No answer provided)", 1)>>

(***************************************************************************)
(* Spreadsheet cells: pandas reads an empty cell as NaN                    *)
(***************************************************************************)
NaN == [isna |-> TRUE, s |-> <<>>]
Cell(t) == [isna |-> FALSE, s |-> t]

\* pd.notna(cell)
notna(c) == ~c.isna

\* row[col] if pd.notna(row[col]) else ""
AnswerOf(c) == IF notna(c) THEN c.s ELSE <<>>

\* q[:500] if q else ""
CodePreview(q) == IF Truthy(q) THEN TakeText(q, PREVIEW_LEN) ELSE <<>>

\* a prompt built from the previews of the report
PromptBoxFromPreview(q) == IF Truthy(q) THEN TakeText(q, PREVIEW_LEN) ELSE NO_ANSWER

\* q or "(No answer provided)"
PromptBox(q) == IF Truthy(q) THEN q ELSE NO_ANSWER

(***************************************************************************)
(* Python values: tagged records                                           *)
(***************************************************************************)
PyInt(n) == [type |-> "int", val |-> n]
PyStr(s) == [type |-> "str", val |-> s]
PyList(l) == [type |-> "list", val |-> l]
PyDict(d) == [type |-> "dict", val |-> d]
EmptyDict == PyDict([k \in {} |-> PyInt(0)])

\* d[k] = v on a dict in construction
SetItem(d, k, v) == PyDict([x \in DOMAIN d.val \cup {k} |-> IF x = k THEN v ELSE d.val[x]])

(***************************************************************************)
(* Exceptions                                                              *)
(***************************************************************************)
NoExc == [type |-> "None", args |-> <<>>]
Exc(t, a) == [type |-> t, args |-> a]
KeyError(k) == Exc("KeyError", <<"'", k, "'">>)

(***************************************************************************)
(* Token sequences: str.strip, the in operator and str.split               *)
(***************************************************************************)
\* the three backquotes that open or close a fenced block
FENCE == "fence"
\* the double quote that delimits a JSON string
QUOTE == "dq"
WHITESPACE == {"\n", " "}

RECURSIVE lstrip(_)
lstrip(s) == IF s # <<>> /\ Head(s) \in WHITESPACE THEN lstrip(Tail(s)) ELSE s

RECURSIVE rstrip(_)
rstrip(s) ==
    IF s # <<>> /\ s[Len(s)] \in WHITESPACE THEN rstrip(SubSeq(s, 1, Len(s) - 1)) ELSE s

\* s.strip()
strip(s) == rstrip(lstrip(s))

\* s.find(sep) + 1: the first position where sep occurs in s, or 0
Find(s, sep) ==
    LET hits == {p \in 1..(Len(s) - Len(sep) + 1) : SubSeq(s, p, p + Len(sep) - 1) = sep}
    IN IF hits = {} THEN 0 ELSE CHOOSE p \in hits : \A q \in hits : p <= q

\* sep in s
Contains(s, sep) == Find(s, sep) # 0

\* s.split(sep)[0]
Split0(s, sep) == IF Contains(s, sep) THEN SubSeq(s, 1, Find(s, sep) - 1) ELSE s

\* s.split(sep)[1], for a separator that occurs in s
Split1(s, sep) == Split0(SubSeq(s, Find(s, sep) + Len(sep), Len(s)), sep)

(***************************************************************************)
(* json.loads on a token sequence.  A document is made of the tokens "{",  *)
(* "}", "[", "]", ",", ":", the double quote, one-digit numerals, and the  *)
(* chunks of text between two double quotes.  A parse yields [ok, val,     *)
(* rest]; ok = FALSE stands for json.JSONDecodeError.  The replies of the  *)
(* model hold no whitespace between the tokens of a document.              *)
(***************************************************************************)
NUMERALS == {"0", "1", "2", "3", "4", "5", "6", "7", "8", "9"}

\* int(tok), for a numeral
NumeralValue(tok) == CHOOSE n \in 0..9 : ToString(n) = tok

ParseFail == [ok |-> FALSE, val |-> PyInt(0), rest |-> <<>>]
ParseOk(v, r) == [ok |-> TRUE, val |-> v, rest |-> r]

RECURSIVE ParseString(_, _)
\* the text after an opening double quote: chunks up to the closing one; a
\* raw line break inside a string is an invalid control character
ParseString(t, acc) ==
    IF t = <<>> \/ Head(t) = "\n" THEN ParseFail
    ELSE IF Head(t) = QUOTE THEN ParseOk(PyStr(acc), Tail(t))
    ELSE ParseString(Tail(t), Append(acc, Head(t)))

RECURSIVE ParseValue(_)
RECURSIVE ParseMember(_, _)
RECURSIVE ParseItem(_, _)

\* "key": value, then "," and another member, or "}"
ParseMember(t, d) ==
    IF t = <<>> \/ Head(t) # QUOTE THEN ParseFail
    ELSE LET k == ParseString(Tail(t), <<>>) IN
         IF ~k.ok \/ k.rest = <<>> \/ Head(k.rest) # ":" THEN ParseFail
         ELSE LET v == ParseValue(Tail(k.rest)) IN
              IF ~v.ok \/ v.rest = <<>> THEN ParseFail
              ELSE LET d2 == SetItem(d, k.val.val, v.val) IN
                   IF Head(v.rest) = "}" THEN ParseOk(d2, Tail(v.rest))
                   ELSE IF Head(v.rest) = "," THEN ParseMember(Tail(v.rest), d2)
                   ELSE ParseFail

\* value, then "," and another item, or "]"
ParseItem(t, l) ==
    LET v == ParseValue(t) IN
    IF ~v.ok \/ v.rest = <<>> THEN ParseFail
    ELSE LET l2 == Append(l, v.val) IN
         IF Head(v.rest) = "]" THEN ParseOk(PyList(l2), Tail(v.rest))
         ELSE IF Head(v.rest) = "," THEN ParseItem(Tail(v.rest), l2)
         ELSE ParseFail

ParseValue(t) ==
    IF t = <<>> THEN ParseFail
    ELSE IF Head(t) = "{"
         THEN IF Len(t) >= 2 /\ t[2] = "}" THEN ParseOk(EmptyDict, SubSeq(t, 3, Len(t)))
              ELSE ParseMember(Tail(t), EmptyDict)
    ELSE IF Head(t) = "["
         THEN IF Len(t) >= 2 /\ t[2] = "]" THEN ParseOk(PyList(<<>>), SubSeq(t, 3, Len(t)))
              ELSE ParseItem(Tail(t), <<>>)
    ELSE IF Head(t) = QUOTE THEN ParseString(Tail(t), <<>>)
    ELSE IF Head(t) \in NUMERALS THEN ParseOk(PyInt(NumeralValue(Head(t))), Tail(t))
    ELSE ParseFail

\* json.loads(s): one value and nothing after it
json_loads(s) ==
    LET r == ParseValue(s) IN
    IF r.ok /\ r.rest = <<>> THEN r ELSE ParseFail

(***************************************************************************)
(* The text of a verdict, as the remote model writes it (json.dumps)       *)
(***************************************************************************)
JsonStr(s) == <<QUOTE>> \o s \o <<QUOTE>>
JsonKey(k) == JsonStr(<<k>>) \o <<":">>
JsonInt(n) == <<ToString(n)>>

RECURSIVE JsonStrList(_)
JsonStrList(l) ==
    IF l = <<>> THEN <<>>
    ELSE JsonStr(Head(l).val) \o (IF Len(l) > 1 THEN <<",">> ELSE <<>>) \o JsonStrList(Tail(l))

DumpsQuestion(q) ==
    <<"{">> \o JsonKey("feedback") \o JsonStr(q[<<"feedback">>].val) \o <<",">>
            \o JsonKey("correct_parts") \o <<"[">>
            \o JsonStrList(q[<<"correct_parts">>].val) \o <<"]", ",">>
            \o JsonKey("points_earned") \o JsonInt(q[<<"points_earned">>].val) \o <<",">>
            \o JsonKey("max_points") \o JsonInt(q[<<"max_points">>].val) \o <<"}">>

DumpsVerdict(v) ==
    <<"{">> \o JsonKey("Q1") \o DumpsQuestion(v.val[<<"Q1">>].val) \o <<",">>
            \o JsonKey("Q2") \o DumpsQuestion(v.val[<<"Q2">>].val) \o <<",">>
            \o JsonKey("total_points") \o JsonInt(v.val[<<"total_points">>].val) \o <<",">>
            \o JsonKey("max_total") \o JsonInt(v.val[<<"max_total">>].val) \o <<",">>
            \o JsonKey("overall_comment") \o JsonStr(v.val[<<"overall_comment">>].val)
            \o <<"}">>

\* a dict from a record of Python values
Dict(r) == PyDict([k \in {<<n>> : n \in DOMAIN r} |-> r[k[1]]])

Question(fb, parts, earned, max) ==
    Dict([feedback |-> PyStr(fb), correct_parts |-> PyList(parts),
          points_earned |-> PyInt(earned), max_points |-> PyInt(max)])

Verdict(q1, q2, total, maxtotal, comment) ==
    Dict([Q1 |-> q1, Q2 |-> q2, total_points |-> PyInt(total),
          max_total |-> PyInt(maxtotal), overall_comment |-> PyStr(comment)])

(***************************************************************************)
(* Evaluation of Python expressions that may raise: [ok, val, exc]         *)
(***************************************************************************)
Value(v) == [ok |-> TRUE, val |-> v, exc |-> NoExc]
Raise(e) == [ok |-> FALSE, val |-> PyInt(0), exc |-> e]

\* v[k] for a string key k
GetItem(v, k) ==
    IF v.type = "dict"
    THEN IF <<k>> \in DOMAIN v.val THEN Value(v.val[<<k>>]) ELSE Raise(KeyError(k))
    ELSE IF v.type = "list"
    THEN Raise(Exc("TypeError", <<"list indices must be integers or slices, not str">>))
    ELSE IF v.type = "str"
    THEN Raise(Exc("TypeError", <<"string indices must be integers">>))
    ELSE Raise(Exc("TypeError", <<"'int' object is not subscriptable">>))

\* v[k1][k2]
GetItem2(v, k1, k2) ==
    LET a == GetItem(v, k1) IN IF a.ok THEN GetItem(a.val, k2) ELSE a

RECURSIVE JoinChunks(_)
\* ", ".join(l) for a list l of str
JoinChunks(l) ==
    IF l = <<>> THEN <<>>
    ELSE Head(l).val \o (IF Len(l) > 1 THEN <<", ">> ELSE <<>>) \o JoinChunks(Tail(l))

\* ", ".join(v): a list of str is joined; a str is joined chunk by chunk; the
\* replies of the model hold no dict under correct_parts
Join(v) ==
    IF v.type = "list"
    THEN IF \A i \in 1..Len(v.val) : v.val[i].type = "str"
         THEN Value(PyStr(JoinChunks(v.val)))
         ELSE Raise(Exc("TypeError", <<"sequence item: expected str instance">>))
    ELSE IF v.type = "str"
    THEN Value(PyStr(JoinChunks([i \in 1..Len(v.val) |-> PyStr(<<v.val[i]>>)])))
    ELSE Raise(Exc("TypeError", <<"can only join an iterable">>))

\* round(x, 1) of the quotient a * 100 / b, in tenths, for a >= 0 and b > 0:
\* to nearest, a tie to the even tenth
RoundTenths(a, b) ==
    LET q == (1000 * a) \div b
        r == (1000 * a) % b
    IN IF 2 * r < b THEN q
       ELSE IF 2 * r > b THEN q + 1
       ELSE IF q % 2 = 0 THEN q ELSE q + 1

\* round(total / max * 100, 1)
Percentage(total, max) ==
    IF total.type # "int" \/ max.type # "int"
    THEN Raise(Exc("TypeError", <<"unsupported operand type(s) for /">>))
    ELSE IF max.val = 0
    THEN Raise(Exc("ZeroDivisionError", <<"division by zero">>))
    ELSE Value(PyInt(RoundTenths(total.val, max.val)))

\* the first expression of a sequence of evaluations that raises, or 0
FirstRaise(evals) ==
    LET bad == {i \in 1..Len(evals) : ~evals[i].ok}
    IN IF bad = {} THEN 0 ELSE CHOOSE i \in bad : \A j \in bad : i <= j

(***************************************************************************)
(* grade_student: the prompt, the extraction of the verdict, the fallback  *)
(***************************************************************************)
\* the point info string of the prompt (lines 230-233)
PointInfo(section) ==
    IF section = "WNL8"
    THEN "Q1: 3 points (graded as whole) Q2: 3 points (part a: 2 points, part b: 1 point)"
    ELSE "Q1: 3 points (part a: 2 points, part b: 1 point) Q2: 3 points (graded as whole)"

\* GRADING_PROMPT_TEMPLATE.format(...): the template is fixed, the prompt is
\* the record of what fills its fields
CompilePrompt(section, q1_a, q1_b, q2_a) ==
    [section |-> section,
     q1_text |-> EXAM_QUESTIONS[section].Q1,
     q2_text |-> EXAM_QUESTIONS[section].Q2,
     point_info |-> PointInfo(section),
     q1_a |-> PromptBox(q1_a),
     q1_b |-> PromptBox(q1_b),
     q2_a |-> PromptBox(q2_a),
     q1_max |-> POINTS[section].Q1.total,
     q2_max |-> POINTS[section].Q2.total,
     total_max |-> POINTS[section].Q1.total + POINTS[section].Q2.total]

SYSTEM_MESSAGE ==
    "You are a helpful programming instructor. Always respond with valid JSON only, no markdown formatting."

Messages(prompt) ==
    <<[role |-> "system", content |-> SYSTEM_MESSAGE], [role |-> "user", content |-> prompt]>>

JSON_TAG == <<FENCE, "json">>

\* lines 261-270: the text handed to json.loads
ExtractText(content) ==
    LET result_text == strip(content) IN
    strip(IF Contains(result_text, JSON_TAG)
          THEN Split0(Split1(result_text, JSON_TAG), <<FENCE>>)
          ELSE IF Contains(result_text, <<FENCE>>)
          THEN Split0(Split1(result_text, <<FENCE>>), <<FENCE>>)
          ELSE result_text)

MANUAL_REVIEW == <<"Grading error - manual review needed">>

\* lines 278-284: the default grading returned when parsing fails
FallbackVerdict(section) ==
    Verdict(Question(MANUAL_REVIEW, <<>>, 0, POINTS[section].Q1.total),
            Question(MANUAL_REVIEW, <<>>, 0, POINTS[section].Q2.total),
            0,
            POINTS[section].Q1.total + POINTS[section].Q2.total,
            <<"This submission needs manual review due to a grading error.">>)

\* lines 261-284, for a response body of the chat-completion shape
GradeContent(section, content) ==
    LET parsed == json_loads(ExtractText(content)) IN
    IF parsed.ok THEN parsed.val ELSE FallbackVerdict(section)

(***************************************************************************)
(* The completion endpoint: what requests.post can come back with          *)
(***************************************************************************)
\* a response: status 0 stands for no response at all (network failure)
Response(status, shape, text) == [status |-> status, shape |-> shape, text |-> text]

\* lines 211-216 and 259-287: what grade_student ends with on a response
GradeOutcomes(section, resp) ==
    IF resp.status = 0
    THEN {Raise(Exc("ReadTimeout", resp.text))}
    ELSE IF resp.status # 200
    THEN {Raise(Exc("Exception", <<"API Error ", ToString(resp.status), ": ">> \o resp.text))}
    ELSE IF resp.shape = "no_choices"
    THEN {Raise(KeyError("choices"))}
    ELSE {Value(GradeContent(section, resp.text))}

(***************************************************************************)
(* process_all_students: the rows of the report                            *)
(***************************************************************************)
\* lines 344-364: the row of a graded student, or the first exception that
\* building it raises (the dict display is evaluated top to bottom)
\* the expressions of lines 352-363, in the order they are evaluated
RowEvals(grading) ==
    LET parts1 == GetItem2(grading, "Q1", "correct_parts")
        parts2 == GetItem2(grading, "Q2", "correct_parts")
        total == GetItem(grading, "total_points")
        max == GetItem(grading, "max_total")
        evals == << GetItem2(grading, "Q1", "feedback"),
                    IF parts1.ok THEN Join(parts1.val) ELSE parts1,
                    GetItem2(grading, "Q1", "points_earned"),
                    GetItem2(grading, "Q1", "max_points"),
                    GetItem2(grading, "Q2", "feedback"),
                    IF parts2.ok THEN Join(parts2.val) ELSE parts2,
                    GetItem2(grading, "Q2", "points_earned"),
                    GetItem2(grading, "Q2", "max_points"),
                    total,
                    max,
                    Percentage(total.val, max.val),
                    GetItem(grading, "overall_comment") >>
    IN evals

\* the dict of lines 344-364, or the first exception its expressions raise
RowFrom(row, q, evals) ==
    LET bad == FirstRaise(evals)
    IN IF bad # 0 THEN Raise(evals[bad].exc)
       ELSE Value([ID |-> row.ID,
                   Section |-> row.Section_Code,
                   Q1_Code_a |-> CodePreview(q.q1_a),
                   Q1_Code_b |-> CodePreview(q.q1_b),
                   Q2_Code |-> CodePreview(q.q2_a),
                   Q1_Feedback |-> evals[1].val,
                   Q1_Correct_Parts |-> evals[2].val,
                   Q1_Points |-> evals[3].val,
                   Q1_Max |-> evals[4].val,
                   Q2_Feedback |-> evals[5].val,
                   Q2_Correct_Parts |-> evals[6].val,
                   Q2_Points |-> evals[7].val,
                   Q2_Max |-> evals[8].val,
                   Total_Points |-> evals[9].val,
                   Max_Points |-> evals[10].val,
                   Percentage |-> evals[11].val,
                   Overall_Comment |-> evals[12].val])

\* result = {...} of lines 344-364, every expression evaluated once
GradedRow(row, q, grading) ==
    CHOOSE r \in {RowFrom(row, q, evals) : evals \in {RowEvals(grading)}} : TRUE

\* f"ERROR: {e}"
ErrorFeedback(e) == PyStr(<<"ERROR: ">> \o e.args)

\* a handler that lets the exception go on instead of writing a row
ErrorRowReraise(row, q, e) == Raise(e)

\* lines 370-390: the row of a student whose grading raised e, or the
\* KeyError of POINTS[section] for a section that has no rubric
ErrorRow(row, q, e) ==
    IF row.Section_Code \notin DOMAIN POINTS THEN Raise(KeyError(row.Section_Code))
    ELSE Value([ID |-> row.ID,
                Section |-> row.Section_Code,
                Q1_Code_a |-> CodePreview(q.q1_a),
                Q1_Code_b |-> CodePreview(q.q1_b),
                Q2_Code |-> CodePreview(q.q2_a),
                Q1_Feedback |-> ErrorFeedback(e),
                Q1_Correct_Parts |-> PyStr(<<>>),
                Q1_Points |-> PyInt(0),
                Q1_Max |-> PyInt(POINTS[row.Section_Code].Q1.total),
                Q2_Feedback |-> ErrorFeedback(e),
                Q2_Correct_Parts |-> PyStr(<<>>),
                Q2_Points |-> PyInt(0),
                Q2_Max |-> PyInt(POINTS[row.Section_Code].Q2.total),
                Total_Points |-> PyInt(0),
                Max_Points |-> PyInt(ERROR_ROW_MAX_POINTS),
                Percentage |-> PyInt(0),
                Overall_Comment |-> PyStr(<<"Error during grading - needs manual review">>)])

(***************************************************************************)
(* load_students: the rows of the sections to grade, in the file's order   *)
(***************************************************************************)
RECURSIVE SelectRows(_, _)
\* df[df["Section_Code"].isin(sections)]
SelectRows(rows, sections) ==
    IF rows = <<>> THEN <<>>
    ELSE (IF Head(rows).Section_Code \in sections THEN <<Head(rows)>> ELSE <<>>)
         \o SelectRows(Tail(rows), sections)

SectionsToGrade == {SECTIONS_TO_GRADE[i] : i \in 1..Len(SECTIONS_TO_GRADE)}

(***************************************************************************)
(* Inputs: the spreadsheet, the environment, the endpoint's responses      *)
(***************************************************************************)
\* the rows of the form, by what they hold besides the ID: one row of each
\* section with a rubric, one of a section without.  Their answer boxes: a
\* missing box, an empty one, short answers, an answer of exactly the
\* preview length and two longer ones
SampleRows ==
    { [Section_Code |-> "WNL8",
       Q1_a |-> Cell(<<Run("a", PREVIEW_LEN - 1), Run("b", 3)>>),
       Q1_b |-> NaN,
       Q2_a |-> Cell(<<Run("c", 2)>>)],
      [Section_Code |-> "WNL10",
       Q1_a |-> Cell(<<>>),
       Q1_b |-> Cell(<<Run("d", PREVIEW_LEN)>>),
       Q2_a |-> Cell(<<Run("e", 1), Run("f", PREVIEW_LEN)>>)],
      [Section_Code |-> "WNL9",
       Q1_a |-> Cell(<<Run("g", 1)>>),
       Q1_b |-> NaN,
       Q2_a |-> NaN] }

\* the spreadsheets of n rows; a row's ID is its place in the file
RECURSIVE Spreadsheets(_)
Spreadsheets(n) ==
    IF n = 0 THEN {<<>>}
    ELSE {Append(t, [ID |-> n, Section_Code |-> r.Section_Code,
                     Q1_a |-> r.Q1_a, Q1_b |-> r.Q1_b, Q2_a |-> r.Q2_a]) :
            t \in Spreadsheets(n - 1), r \in SampleRows}

\* MODEL_ACCESS_KEY: unset (or empty), or set
EnvKeys == {"", "sk-do-1"}

\* verdicts the remote model may write
GoodVerdict ==
    Verdict(Question(<<"Correct loop">>, <<PyStr(<<"loops">>), PyStr(<<"print">>)>>, 3, 3),
            Question(<<"Part b missing">>, <<PyStr(<<"sets">>)>>, 2, 3),
            5, 6, <<"Nice work">>)

\* a valid verdict whose feedback quotes a fence marker
FenceInFeedbackVerdict ==
    Verdict(Question(<<"Wrap code in ", FENCE, "python", " blocks">>, <<>>, 1, 3),
            Question(<<"Good">>, <<PyStr(<<"dict">>)>>, 3, 3),
            4, 6, <<"Keep going">>)

\* points over the maximum, and a total that is not the sum
OutOfRangeVerdict ==
    Verdict(Question(<<"Excellent">>, <<>>, 7, 3),
            Question(<<"Excellent">>, <<>>, 3, 3),
            9, 6, <<"Outstanding">>)

\* a reply of the right shape whose max_total is 0
ZeroMaxVerdict ==
    Verdict(Question(<<"Empty">>, <<>>, 0, 0),
            Question(<<"Empty">>, <<>>, 0, 0),
            0, 0, <<"Nothing to grade">>)

\* the three forms of a reply that carries the document doc
Bare(doc) == <<"\n">> \o doc \o <<" ", "\n">>
JsonFenced(doc) == <<FENCE, "json", "\n">> \o doc \o <<"\n", FENCE>>
Fenced(doc) == <<FENCE, "\n">> \o doc \o <<"\n", FENCE>>
TagFenced(doc) == <<FENCE, "python", "\n">> \o doc \o <<"\n", FENCE>>

ValidVerdicts == {GoodVerdict, FenceInFeedbackVerdict}

\* the replies that carry a valid verdict
WellFormedReplies ==
    UNION {{DumpsVerdict(v), Bare(DumpsVerdict(v)), JsonFenced(DumpsVerdict(v)),
            Fenced(DumpsVerdict(v)), TagFenced(DumpsVerdict(v)),
            <<"Here is the grade:", "\n">> \o JsonFenced(DumpsVerdict(v)) \o <<"\n", "Done.">>} :
           v \in ValidVerdicts}

\* replies that parse to something else than a valid verdict
IllFormedReplies ==
    {DumpsVerdict(OutOfRangeVerdict), DumpsVerdict(ZeroMaxVerdict),
     <<"{", "}">>}

\* replies that are no JSON document
UnparseableReplies ==
    {<<"I cannot grade this.">>, <<>>, <<"{", QUOTE, "Q1", QUOTE, ":">>,
     JsonFenced(<<"{", "}", "}">>)}

ReplyTexts == WellFormedReplies \cup IllFormedReplies \cup UnparseableReplies

\* what requests.post comes back with: no response within the timeout, a
\* status that is not 200, a 200 whose JSON body has no "choices", and the
\* chat completions.  (A 200 whose body is not JSON is not among them.)
Responses ==
    {Response(0, "none", <<"Read timed out. (read timeout=120)">>),
     Response(500, "text", <<"Internal Server Error">>),
     Response(200, "no_choices", <<"{", "}">>)}
    \cup {Response(200, "chat", t) : t \in ReplyTexts}

(***************************************************************************)
(* State                                                                   *)
(***************************************************************************)
VARIABLES
    env_key,     \* os.environ["MODEL_ACCESS_KEY"] ("" when unset)
    table,       \* the rows of the spreadsheet (main) or of the argument df
    caller,      \* "main": the script is run; "other": another module calls process_all_students(df)
    pc,          \* the statement the program is at
    df,          \* the argument of process_all_students
    api_key,     \* process_all_students' local
    idx,         \* the loop's counter: rows taken from df so far
    q,           \* the locals q1_a, q1_b, q2_a of the loop body
    messages,    \* grade_student's local, kept until the student's row is appended
    response,    \* what requests.post came back with, kept until the row is appended
    grading,     \* the value grade_student returned
    exc,         \* the exception being handled or propagated
    results,     \* process_all_students' local list of rows
    calls,       \* history: the requests posted to the endpoint, each with the rows
                 \* appended before it, the status that came back (-1 while it
                 \* is awaited, 0 for none) and the text of a failed transport
    pending,     \* history: requests posted and not yet answered
    key_reads,   \* history: calls of get_api_key
    saved        \* history: the arguments of the calls of save_results

vars == <<env_key, table, caller, pc, df, api_key, idx, q, messages, response,
          grading, exc, results, calls, pending, key_reads, saved>>

NoAnswers == [q1_a |-> <<>>, q1_b |-> <<>>, q2_a |-> <<>>]
NoResponse == Response(0, "none", <<>>)

Init ==
    /\ env_key \in EnvKeys
    /\ table \in UNION {Spreadsheets(n) : n \in 0..MaxStudents}
    /\ caller \in {"main", "other"}
    /\ pc = IF caller = "main" THEN "main" ELSE "process_all_students"
    /\ df = IF caller = "main" THEN <<>> ELSE table
    /\ api_key = ""
    /\ idx = 0
    /\ q = NoAnswers
    /\ messages = <<>>
    /\ response = NoResponse
    /\ grading = PyInt(0)
    /\ exc = NoExc
    /\ results = <<>>
    /\ calls = <<>>
    /\ pending = 0
    /\ key_reads = 0
    /\ saved = <<>>

\* main without the early return of lines 453-455
LoadStudentsNoEmptyCheck ==
    /\ pc = "main"
    /\ df' = SelectRows(table, SectionsToGrade)
    /\ pc' = "process_all_students"
    /\ UNCHANGED <<env_key, table, caller, api_key, idx, q, messages, response,
                   grading, exc, results, calls, pending, key_reads, saved>>

(***************************************************************************)
(* main, lines 451-458: load the students; leave when there is none        *)
(***************************************************************************)
LoadStudents ==
    /\ pc = "main"
    /\ df' = SelectRows(table, SectionsToGrade)
    /\ pc' = IF df' = <<>> THEN "exit" ELSE "process_all_students"
    /\ UNCHANGED <<env_key, table, caller, api_key, idx, q, messages, response,
                   grading, exc, results, calls, pending, key_reads, saved>>

(***************************************************************************)
(* process_all_students, lines 320-321, and get_api_key, lines 189-194:    *)
(* the ValueError of a missing key is caught nowhere                       *)
(***************************************************************************)
GetApiKey ==
    /\ pc = "process_all_students"
    /\ key_reads' = key_reads + 1
    /\ IF env_key = ""
       THEN /\ exc' = Exc("ValueError", <<"MODEL_ACCESS_KEY environment variable not set">>)
            /\ pc' = "crashed"
            /\ UNCHANGED <<api_key, results>>
       ELSE /\ api_key' = env_key
            /\ results' = <<>>
            /\ pc' = "loop"
            /\ UNCHANGED exc
    /\ UNCHANGED <<env_key, table, caller, df, idx, q, messages, response,
                   grading, calls, pending, saved>>

(***************************************************************************)
(* lines 328-338: the next row of df, its answers with NaN read as ""      *)
(***************************************************************************)
NextStudent ==
    /\ pc = "loop"
    /\ idx < Len(df)
    /\ idx' = idx + 1
    /\ q' = [q1_a |-> AnswerOf(df[idx'].Q1_a),
             q1_b |-> AnswerOf(df[idx'].Q1_b),
             q2_a |-> AnswerOf(df[idx'].Q2_a)]
    /\ pc' = "grade_student"
    /\ UNCHANGED <<env_key, table, caller, df, api_key, messages, response,
                   grading, exc, results, calls, pending, key_reads, saved>>

(***************************************************************************)
(* line 394: the loop is over, results is returned to the caller           *)
(***************************************************************************)
ReturnResults ==
    /\ pc = "loop"
    /\ idx = Len(df)
    /\ pc' = IF caller = "main" THEN "save_results" ELSE "returned"
    /\ UNCHANGED <<env_key, table, caller, df, api_key, idx, q, messages, response,
                   grading, exc, results, calls, pending, key_reads, saved>>

(***************************************************************************)
(* grade_student, lines 222-257: the rubric lookup and the prompt          *)
(***************************************************************************)
BuildMessages ==
    /\ pc = "grade_student"
    /\ IF df[idx].Section_Code \notin DOMAIN EXAM_QUESTIONS
       THEN /\ exc' = KeyError(df[idx].Section_Code)
            /\ pc' = "except"
            /\ UNCHANGED messages
       ELSE /\ messages' = Messages(CompilePrompt(df[idx].Section_Code,
                                                  q.q1_a, q.q1_b, q.q2_a))
            /\ pc' = "post"
            /\ UNCHANGED exc
    /\ UNCHANGED <<env_key, table, caller, df, api_key, idx, q, response,
                   grading, results, calls, pending, key_reads, saved>>

(***************************************************************************)
(* call_inference_api, lines 199-211: the request is posted                *)
(***************************************************************************)
PostRequest ==
    /\ pc = "post"
    /\ calls' = Append(calls, [student |-> idx,
                               authorization |-> api_key,
                               messages |-> messages,
                               rows |-> Len(results),
                               status |-> -1,
                               failure |-> <<>>])
    /\ pending' = pending + 1
    /\ pc' = "await"
    /\ UNCHANGED <<env_key, table, caller, df, api_key, idx, q, messages, response,
                   grading, exc, results, key_reads, saved>>

(***************************************************************************)
(* lines 211-216 and 259-287: the response, or the failure of the          *)
(* transport, and what grade_student makes of it                           *)
(***************************************************************************)
ReceiveResponse ==
    /\ pc = "await"
    /\ \E resp \in Responses :
       \E r \in GradeOutcomes(df[idx].Section_Code, resp) :
          /\ response' = resp
          /\ calls' = [calls EXCEPT ![Len(calls)].status = resp.status,
                                    ![Len(calls)].failure =
                                        IF resp.status = 200 THEN <<>>
                                        ELSE resp.text]
          /\ IF r.ok
             THEN /\ grading' = r.val
                  /\ pc' = "row"
                  /\ UNCHANGED exc
             ELSE /\ exc' = r.exc
                  /\ pc' = "except"
                  /\ UNCHANGED grading
    /\ pending' = pending - 1
    /\ UNCHANGED <<env_key, table, caller, df, api_key, idx, q, messages,
                   results, key_reads, saved>>

(***************************************************************************)
(* lines 344-366 and 392: the row of a graded student is appended          *)
(***************************************************************************)
AppendGradedRow ==
    /\ pc = "row"
    /\ \E r \in {GradedRow(df[idx], q, grading)} :
       IF r.ok
       THEN /\ results' = Append(results, r.val)
            /\ pc' = "loop"
            /\ messages' = <<>>
            /\ response' = NoResponse
            /\ UNCHANGED exc
       ELSE /\ exc' = r.exc
            /\ pc' = "except"
            /\ UNCHANGED <<results, messages, response>>
    /\ UNCHANGED <<env_key, table, caller, df, api_key, idx, q,
                   grading, calls, pending, key_reads, saved>>

\* a handler that posts the request once more after a failed transport
AppendErrorRowRetry ==
    /\ pc = "except"
    /\ IF exc.type \in {"ReadTimeout", "Exception"}
          /\ Cardinality({k \in 1..Len(calls) : calls[k].student = idx}) < 2
       THEN /\ pc' = "post"
            /\ exc' = NoExc
            /\ UNCHANGED <<results, messages, response>>
       ELSE /\ results' = Append(results, ErrorRow(df[idx], q, exc).val)
            /\ pc' = "loop"
            /\ exc' = NoExc
            /\ messages' = <<>>
            /\ response' = NoResponse
    /\ UNCHANGED <<env_key, table, caller, df, api_key, idx, q,
                   grading, calls, pending, key_reads, saved>>

(***************************************************************************)
(* lines 368-392: the handler of the loop body; an exception it raises     *)
(* itself leaves process_all_students                                      *)
(***************************************************************************)
AppendErrorRow ==
    /\ pc = "except"
    /\ LET r == ErrorRow(df[idx], q, exc) IN
       IF r.ok
       THEN /\ results' = Append(results, r.val)
            /\ pc' = "loop"
            /\ exc' = NoExc
            /\ messages' = <<>>
            /\ response' = NoResponse
       ELSE /\ exc' = r.exc
            /\ pc' = "crashed"
            /\ UNCHANGED <<results, messages, response>>
    /\ UNCHANGED <<env_key, table, caller, df, api_key, idx, q,
                   grading, calls, pending, key_reads, saved>>

(***************************************************************************)
(* main, line 461: the report is handed to save_results                    *)
(***************************************************************************)
SaveResults ==
    /\ pc = "save_results"
    /\ saved' = Append(saved, results)
    /\ pc' = "exit"
    /\ UNCHANGED <<env_key, table, caller, df, api_key, idx, q, messages, response,
                   grading, exc, results, calls, pending, key_reads>>

Next ==
    \/ LoadStudents
    \/ GetApiKey
    \/ NextStudent
    \/ ReturnResults
    \/ BuildMessages
    \/ PostRequest
    \/ ReceiveResponse
    \/ AppendGradedRow
    \/ AppendErrorRow
    \/ SaveResults

Spec == Init /\ [][Next]_vars

\* the script run from main only
InitMain == Init /\ caller = "main"
SpecMain == InitMain /\ [][Next]_vars

\* the script run from main; a request blocks until the response or the
\* timeout of line 211, and no other statement waits, so a step that can be
\* taken is taken
FairSpecMain == InitMain /\ [][Next]_vars /\ WF_vars(Next)

(***************************************************************************)
(* Properties                                                              *)
(***************************************************************************)
\* process_all_students has ended: it returned, or an exception left it
Ended == pc \in {"returned", "save_results", "crashed"} \/ (pc = "exit" /\ key_reads > 0)

\* row i of the report is the row of submission i
RowOf(i) == i <= Len(results) /\ i <= Len(df) /\ results[i].ID = df[i].ID

\* the loop body is over for row i of df
Handled(i) == i < idx \/ (i = idx /\ pc \in {"loop", "returned", "save_results", "exit", "crashed"})

RegisteredSection(i) == df[i].Section_Code \in DOMAIN POINTS

IsInt(v) == v.type = "int"

\* C1: whatever the submissions and whatever each completion call comes back
\* with, process_all_students (with the credential set) returns a report
\* that holds exactly one row per submission, row i being that of
\* submission i; rows are only ever appended in the order of the input.
C1_OneRowPerSubmission ==
    env_key # "" =>
        /\ Len(results) <= idx
        /\ \A i \in 1..Len(results) : RowOf(i)
        /\ Ended => (pc # "crashed" /\ Len(results) = Len(df))

\* the bounds of a verdict, read on a row of the report
RowWithinBounds(r) ==
    /\ IsInt(r.Q1_Points) /\ IsInt(r.Q1_Max) /\ IsInt(r.Q2_Points) /\ IsInt(r.Q2_Max)
    /\ IsInt(r.Total_Points) /\ IsInt(r.Max_Points)
    /\ 0 <= r.Q1_Points.val /\ r.Q1_Points.val <= r.Q1_Max.val
    /\ 0 <= r.Q2_Points.val /\ r.Q2_Points.val <= r.Q2_Max.val
    /\ r.Total_Points.val = r.Q1_Points.val + r.Q2_Points.val
    /\ r.Max_Points.val = r.Q1_Max.val + r.Q2_Max.val

\* C2: every verdict that reaches a row of the report has each question's
\* points between 0 and the question's maximum, a total equal to the sum of
\* the points and a maximum equal to the sum of the maxima (a reply that
\* parses but breaks this is replaced by the fallback verdict).
C2_RowsWithinBounds == \A i \in 1..Len(results) : RowWithinBounds(results[i])

\* C6: a submission whose section has no rubric is fatal to itself only: its
\* row carries zero points, the default maximum and the error as feedback,
\* and the batch goes on with the next submission.
C6_UnknownCohortIsolated ==
    \A i \in 1..idx :
        (~RegisteredSection(i) /\ Handled(i)) =>
            /\ pc # "crashed"
            /\ RowOf(i)
            /\ results[i].Total_Points = PyInt(0)
            /\ results[i].Max_Points = PyInt(ERROR_ROW_MAX_POINTS)
            /\ results[i].Q1_Feedback = ErrorFeedback(KeyError(df[i].Section_Code))
            /\ results[i].Q2_Feedback = ErrorFeedback(KeyError(df[i].Section_Code))

\* the structured verdict of the prompt's response format (lines 161-177)
IsQuestionVerdict(v) ==
    /\ v.type = "dict"
    /\ DOMAIN v.val = {<<"feedback">>, <<"correct_parts">>, <<"points_earned">>, <<"max_points">>}
    /\ v.val[<<"feedback">>].type = "str"
    /\ v.val[<<"correct_parts">>].type = "list"
    /\ \A i \in 1..Len(v.val[<<"correct_parts">>].val) :
           v.val[<<"correct_parts">>].val[i].type = "str"
    /\ IsInt(v.val[<<"points_earned">>])
    /\ IsInt(v.val[<<"max_points">>])

IsVerdict(v) ==
    /\ v.type = "dict"
    /\ DOMAIN v.val = {<<"Q1">>, <<"Q2">>, <<"total_points">>, <<"max_total">>,
                       <<"overall_comment">>}
    /\ IsQuestionVerdict(v.val[<<"Q1">>])
    /\ IsQuestionVerdict(v.val[<<"Q2">>])
    /\ IsInt(v.val[<<"total_points">>])
    /\ IsInt(v.val[<<"max_total">>])
    /\ v.val[<<"overall_comment">>].type = "str"

\* the text extracted from a reply parses as a structured verdict
ParsesAsVerdict(content) ==
    LET parsed == json_loads(ExtractText(content)) IN parsed.ok /\ IsVerdict(parsed.val)

\* grade_student has come back from the endpoint with a chat completion
Replied == response.status = 200 /\ response.shape = "chat" /\ pc \in {"row", "except"}

\* the fallback verdict, written from the rubric of row i of df
ManualReviewVerdict(i) ==
    LET zero(max) == Question(<<"Grading error - manual review needed">>, <<>>, 0, max) IN
    Verdict(zero(POINTS[df[i].Section_Code].Q1.total),
            zero(POINTS[df[i].Section_Code].Q2.total),
            0,
            POINTS[df[i].Section_Code].Q1.total + POINTS[df[i].Section_Code].Q2.total,
            <<"This submission needs manual review due to a grading error.">>)

\* C3: for every reply whose extracted text does not parse as the structured
\* verdict, grade_student does not raise and returns the fallback verdict:
\* zero points on both questions and in total, the maxima of the section's
\* rubric, the fixed manual-review feedback; the same for every such reply.
C3_UnparseableGivesFallback ==
    (Replied /\ ~ParsesAsVerdict(response.text)) =>
        (pc = "row" /\ grading = ManualReviewVerdict(idx))

\* the forms of a reply that carries the text doc: bare, with whitespace
\* around it, in a block fenced as json, in a block fenced without a tag, in
\* a block fenced with another tag
FormsOf(doc) ==
    {doc, Bare(doc), JsonFenced(doc), Fenced(doc), TagFenced(doc)}

\* C4: a reply that carries the text of a valid verdict v, fenced as json,
\* fenced generically (with or without another tag) or not fenced, is
\* extracted to v, also when a text field of v holds a fence marker.
C4_FormsExtractAlike ==
    \A v \in ValidVerdicts :
        (Replied /\ response.text \in FormsOf(DumpsVerdict(v))) =>
            (pc = "row" /\ grading = v)

\* the transport of a posted request failed: no response, or a status that
\* is not 200
TransportFailed(c) == c.status # 200 /\ c.status # -1

\* a feedback text that embeds the failure of call c
EmbedsFailure(fb, c) ==
    /\ fb.type = "str"
    /\ fb.val # <<>>
    /\ Head(fb.val) = "ERROR: "
    /\ Contains(fb.val, c.failure)
    /\ c.status # 0 => Contains(fb.val, <<ToString(c.status)>>)

\* C5: a completion call that fails in the transport (no response in time,
\* or a status that is not 200) is caught in the loop body: the student's
\* row carries zero points and the failure as feedback, a call is still made
\* for every later student, and the report is as long as the input.
C5_TransportFailureIsolated ==
    \A k \in 1..Len(calls) :
        TransportFailed(calls[k]) =>
            LET i == calls[k].student IN
            /\ pc # "crashed"
            /\ Handled(i) =>
                   /\ RowOf(i)
                   /\ results[i].Q1_Points = PyInt(0)
                   /\ results[i].Q2_Points = PyInt(0)
                   /\ results[i].Total_Points = PyInt(0)
                   /\ EmbedsFailure(results[i].Q1_Feedback, calls[k])
                   /\ EmbedsFailure(results[i].Q2_Feedback, calls[k])
            /\ pc \in {"save_results", "exit"} =>
                   /\ Len(results) = Len(df)
                   /\ \A j \in (i + 1)..Len(df) :
                          \E c \in 1..Len(calls) : calls[c].student = j

C5_Witness ==
    /\ pc = "exit"
    /\ Len(df) = 2
    /\ Len(calls) = 2
    /\ TransportFailed(calls[1])
    /\ calls[2].status = 200
    /\ Len(results) = 2
    /\ saved = <<results>>

\* C7: the credential is checked exactly once in every run, before any
\* submission is processed; a run without it fails as a whole, with no
\* completion call and no row; a run with it uses it for every call.
C7_CheckedOncePerRun ==
    /\ key_reads <= 1
    /\ pc \in {"exit", "returned", "crashed"} => key_reads = 1
    /\ (env_key = "" /\ pc \in {"exit", "returned", "crashed"}) =>
           (pc = "crashed" /\ calls = <<>> /\ results = <<>>)
    /\ idx > 0 => key_reads = 1
    /\ \A k \in 1..Len(calls) : calls[k].authorization = env_key

\* what the code keeps of it: the credential is read once per call of
\* process_all_students, as its first statement, and not at all in a run of
\* main that finds no student to grade
CheckedOncePerBatch ==
    /\ key_reads <= 1
    /\ key_reads = 0 <=>
           (pc \in {"main", "process_all_students"} \/ (pc = "exit" /\ df = <<>>))
    /\ (idx > 0 \/ calls # <<>> \/ results # <<>> \/ saved # <<>>) =>
           (key_reads = 1 /\ env_key # "")
    /\ (key_reads = 1 /\ env_key = "") =>
           /\ pc = "crashed"
           /\ exc.type = "ValueError"
           /\ idx = 0 /\ calls = <<>> /\ results = <<>> /\ saved = <<>>
    /\ (key_reads = 1 /\ env_key # "") => api_key = env_key
    /\ \A k \in 1..Len(calls) :
           calls[k].authorization = env_key /\ calls[k].authorization # ""

\* C8: at most one completion call is made per submission (none is made
\* again after a failed transport or an unparseable reply), and the calls
\* are sequential: when the call of a student is posted the rows of all the
\* students before are appended, and at most one call awaits its response.
C8_OneCallPerStudentInTurn ==
    /\ pending = IF pc = "await" THEN 1 ELSE 0
    /\ \A k \in 1..Len(calls) :
           /\ calls[k].rows = calls[k].student - 1
           /\ calls[k].status = -1 => (k = Len(calls) /\ pc = "await")
    /\ \A k1, k2 \in 1..Len(calls) :
           k1 < k2 => calls[k1].student < calls[k2].student

C8_Witness ==
    /\ Len(calls) = 2
    /\ pc = "await"
    /\ pending = 1
    /\ TransportFailed(calls[1])
    /\ Len(results) = 1

Min(a, b) == IF a <= b THEN a ELSE b

RECURSIVE IsPrefix(_, _)
\* the text a is the beginning of the text b
IsPrefix(a, b) ==
    \/ a = <<>>
    \/ /\ b # <<>>
       /\ Head(a).ch = Head(b).ch
       /\ \/ Head(a).n = Head(b).n /\ IsPrefix(Tail(a), Tail(b))
          \/ Head(a).n < Head(b).n /\ Tail(a) = <<>>

\* the text of an answer box, a missing box being an empty answer
BoxText(c) == IF c.isna THEN <<>> ELSE c.s

\* the prompt's code box holds the whole answer, or the placeholder of an
\* empty answer
HoldsWholeAnswer(box, c) ==
    IF BoxText(c) = <<>> THEN box = NO_ANSWER
    ELSE TextLen(box) = TextLen(BoxText(c)) /\ IsPrefix(box, BoxText(c))

\* the row's code field holds the first 500 characters of the answer
HoldsPreview(code, c) ==
    /\ TextLen(code) = Min(TextLen(BoxText(c)), PREVIEW_LEN)
    /\ IsPrefix(code, BoxText(c))

IsErrorRow(r) == r.Overall_Comment = PyStr(<<"Error during grading - needs manual review">>)

\* C9: the prompt of every completion call embeds the whole text of each
\* answer box of its student (a missing box as an empty answer), and the
\* code fields of every row, graded or not, hold the first 500 characters of
\* the same text: the cut is made for the row only.
C9_WholeAnswerGradedPreviewReported ==
    /\ \A k \in 1..Len(calls) :
           LET row == df[calls[k].student]
               prompt == calls[k].messages[2].content
           IN /\ HoldsWholeAnswer(prompt.q1_a, row.Q1_a)
              /\ HoldsWholeAnswer(prompt.q1_b, row.Q1_b)
              /\ HoldsWholeAnswer(prompt.q2_a, row.Q2_a)
    /\ \A i \in 1..Len(results) :
           /\ RowOf(i)
           /\ HoldsPreview(results[i].Q1_Code_a, df[i].Q1_a)
           /\ HoldsPreview(results[i].Q1_Code_b, df[i].Q1_b)
           /\ HoldsPreview(results[i].Q2_Code, df[i].Q2_a)

C9_Witness ==
    /\ Len(results) = 2
    /\ Len(calls) = 2
    /\ ~IsErrorRow(results[1])
    /\ IsErrorRow(results[2])
    /\ \A i \in 1..2 :
           \E f \in {"Q1_Code_a", "Q2_Code"} :
               /\ TextLen(results[i][f]) = PREVIEW_LEN
               /\ \E b \in {"q1_a", "q2_a"} :
                      TextLen(calls[i].messages[2].content[b]) > PREVIEW_LEN

\* what a run of main may be seen in
C10_Safety ==
    /\ Len(saved) <= 1
    /\ saved # <<>> => (pc = "exit" /\ saved = <<results>>)
    /\ pc = "crashed" => env_key = ""
    /\ (pc = "exit" /\ df = <<>>) => (calls = <<>> /\ results = <<>> /\ saved = <<>>)
    /\ (pc = "exit" /\ df # <<>>) =>
           /\ saved = <<results>>
           /\ idx = Len(df)
           /\ Len(results) = Len(df)
           /\ \A i \in 1..Len(df) : RowOf(i)

\* C10: a run of main with the credential set ends, whatever fails for a
\* single submission; with a student to grade it hands the report to
\* save_results exactly once, after the last student, with a row for every
\* student; with no student to grade it ends without a completion call and
\* without a report.
C10_RunEndsWithReport ==
    /\ []C10_Safety
    /\ env_key # "" => <>(pc = "exit")

C10_Witness ==
    /\ pc = "exit"
    /\ Len(df) = 2
    /\ saved = <<results>>
    /\ Len(results) = 2
    /\ IsErrorRow(results[1])
    /\ ~IsErrorRow(results[2])

====
